---- MODULE Spec2Model ----
(***************************************************************************)
(* The player-connection layer of mpris-dbus-apps                          *)
(* (src/lib/dbus_mpris/player.py): the PlayerProxy with its                *)
(* reconnect_player policy, the two Player bindings (pydbus, dbus-python), *)
(* their set_position algorithm, and the PlayerFactory with its memo of    *)
(* unuseable player names; and get_selected_player of the front-ends       *)
(* (src/lib/ui/console_ui.py, src/lib/helpers.py).                         *)
(*                                                                         *)
(* The session bus and the remote players are the environment: a player    *)
(* may exit, start again (a new connection on the bus), change its track   *)
(* and advance its position between any two bus calls of the program.      *)
(* The program itself is single-threaded: one proxy call runs at a time,   *)
(* bus call by bus call.                                                   *)
(***************************************************************************)
EXTENDS Integers, Sequences, FiniteSets, TLC

(***************************************************************************)
(* Bounds of the model.                                                    *)
(***************************************************************************)
\* Environment events (player exits, starts, track changes, ...) per run.
MaxEnvEvents == 2
\* Positions and set_position targets range over 0..MaxPos.
MaxPos == 2
\* Player handles built in one run of the session.
MaxHandles == 1

(***************************************************************************)
(* Names and Python values.                                                *)
(***************************************************************************)
\* media_player_prefix of get_running_player_names, as its characters.
media_player_prefix ==
    <<"o", "r", "g", ".", "m", "p", "r", "i", "s", ".", "M", "e", "d", "i",
      "a", "P", "l", "a", "y", "e", "r", "2">>

\* Names on the session bus, as their characters: two players, the bus
\* daemon itself, and a service whose name holds the prefix past its start.
VlcName == media_player_prefix \o <<".", "v", "l", "c">>
MpvName == media_player_prefix \o <<".", "m", "p", "v">>
DaemonName ==
    <<"o", "r", "g", ".", "f", "r", "e", "e", "d", "e", "s", "k", "t", "o",
      "p", ".", "D", "B", "u", "s">>

BridgeName == <<"x", ".">> \o media_player_prefix \o <<".", "y">>

\* The player a session talks to: (fully qualified bus name, short name).
PlayerNames == { <<VlcName, <<"v", "l", "c">> >> }

Services == { p[1] : p \in PlayerNames }

\* The names the session bus may carry, and the players among them.
BusNames == {VlcName, MpvName, DaemonName, BridgeName}
BusPlayers == {VlcName, MpvName}

Range(q) == { q[i] : i \in DOMAIN q }

\* A Python value: a str (its characters) or something that is no str.
PyStr(chars) == [type |-> "str", val |-> chars]
PyInt == [type |-> "int", val |-> <<>>]

\* The characters [A-Za-z0-9_] of _path_re.
WordChars ==
    {"a", "b", "c", "d", "e", "f", "g", "h", "i", "j", "k", "l", "m", "n",
     "o", "p", "q", "r", "s", "t", "u", "v", "w", "x", "y", "z", "A", "B",
     "C", "D", "E", "F", "G", "H", "I", "J", "K", "L", "M", "N", "O", "P",
     "Q", "R", "S", "T", "U", "V", "W", "X", "Y", "Z", "0", "1", "2", "3",
     "4", "5", "6", "7", "8", "9", "_"}

\* str.split(sep) on a sequence of characters: the list of the pieces.
RECURSIVE Split(_, _)
Split(s, sep) ==
    IF \A i \in 1..Len(s) : s[i] # sep
    THEN << s >>
    ELSE LET k == CHOOSE i \in 1..Len(s) :
                      s[i] = sep /\ \A j \in 1..(i - 1) : s[j] # sep
         IN  << SubSeq(s, 1, k - 1) >> \o Split(SubSeq(s, k + 1, Len(s)), sep)

\* _path_re.search(element) is not None, for r"^[A-Za-z0-9_]+$": one or more
\* word characters up to the end of the string, where Python's $ also
\* matches just before a newline that ends the string.
PathReSearch(element) ==
    LET n == Len(element)
        AllWord(k) == k >= 1 /\ \A i \in 1..k : element[i] \in WordChars
    IN  \/ AllWord(n)
        \/ n >= 2 /\ element[n] = "\n" /\ AllWord(n - 1)

\* A variant that accepts no path.
is_object_path_valid_never(path) == FALSE

is_object_path_valid(path) ==
    IF path.type # "str" THEN FALSE
    ELSE IF path.val = <<>> THEN FALSE
    ELSE IF path.val[1] # "/" THEN FALSE
    ELSE IF Len(path.val) = 1 THEN TRUE
    ELSE LET elements == Split(Tail(path.val), "/")
         IN  \A i \in 1..Len(elements) : PathReSearch(elements[i])

\* The track ids a remote player reports in this model.
ValidTrackId == PyStr(<<"/", "t", "/", "1">>)
EmptyTrackId == PyStr(<<>>)
BadTrackId == PyStr(<<"t", "1">>)
NewlineTrackId == PyStr(<<"/", "t", "\n">>)
TrackIds == {ValidTrackId, EmptyTrackId, BadTrackId, NewlineTrackId}

\* The Metadata property: a map that may lack the "mpris:trackid" key.
MetadataWith(id) == [k \in {"mpris:trackid"} |-> id]
MetadataNoTrackId == [k \in {} |-> EmptyTrackId]
Metadatas == {MetadataNoTrackId} \cup {MetadataWith(id) : id \in TrackIds}

PlayerIface == "org.mpris.MediaPlayer2.Player"
CapabilityFlags == {"CanControl", "CanSeek", "CanPause", "CanPlay"}

\* Python's None, and the results a call hands back, as tagged tuples.
None == << "None" >>
IntVal(n) == << "int", n >>
StrVal(s) == << "str", s >>
BoolVal(b) == << "bool", b >>
ObjVal(v) == << "object", v >>

(***************************************************************************)
(* State.                                                                  *)
(***************************************************************************)
VARIABLES
    \* --- environment: the module imports and the session bus ---
    binding,     \* "pydbus" | "dbus_python": the binding the import found
    reach,       \* per service: what obtaining its object does now
                 \*   "ok": it is there; "KeyError": the name is owned, the
                 \*   object is not exported; "Error": the name has no owner
    owner,       \* per service: the connection that owns the name now
    position,    \* per service: the Position property
    metadata,    \* per service: the Metadata property
    caps,        \* per service: the capability flags that are true
    envEvents,   \* environment events so far
    \* --- the program's objects ---
    handles,     \* the Player objects built, by index
    player,      \* PlayerProxy._player: 0 is None, else a handle index
    pcache,      \* the proxy's cached_property values, per flag
    \* --- the proxy call in progress ---
    pc,          \* "idle", the place in the call, or "done"
    cur,         \* the call: [op, arg, iface, prop]
    attempt,     \* 1: first invocation of func, 2: the retry
    tidFor,      \* what the trackid read in progress is for
    tidValid,    \* set_position: the id is_object_path_valid accepted
    tidArg,      \* set_position: the id read for SetPosition
    curPos,      \* set_position: cur_pos
    \* --- what the call did (observations) ---
    opCalls,     \* invocations of the handle's operation in this call
    connCalls,   \* invocations of the handle's connect() in this call
    bus,         \* the bus invocations of this call, in order
    result,      \* "none" | "ok" | "error": how the call ended
    raised,      \* the exception the caller observed ("" for none)
    ret,         \* the value returned to the caller
    raises,      \* exceptions out of the handle's operation in this call
    envChanged,  \* the environment changed while the call ran
    startLink,   \* at the call: "none" (no handle attached), "ok" (the
                 \* handle reaches its player), "stale" (the player is
                 \* there, as another connection) or "down"
    startPos,    \* at the call: the Position of the attached player
    startMd,     \* at the call: the Metadata of the attached player
    errorBefore, \* an earlier call of the session ended in an error
    \* --- the PlayerFactory ---
    unuseable_player_names,  \* the class attribute: a list of bus names
    fpc,                     \* "idle", "loop" (in the for loop) or "done"
    fcall,                   \* the factory call: its name ("" for none)
    all_service_names,       \* the list the pass iterates over
    idx,                     \* the element the for loop is at
    running_player_names,    \* the dictionary the pass builds
    attempts,                \* the get_player calls of the factory call, in
                             \* order: [service, connect, outcome], connect
                             \* being how the handle's connect() ended
    memoAtCall,              \* unuseable_player_names when the call began
    bindings,                \* the bindings the process has used so far:
                             \* [call, binding] for each use
    fresult,                 \* "none" | "ok" | "error": how the call ended
    fraised,                 \* the exception its caller observed
    \* --- get_selected_player ---
    sel_pc,                  \* "idle", the place in the call, or "done"
    running_players,         \* the argument: short name -> bus name
    player_names,            \* list(running_players.keys()), as it shrinks
    selected_player_name,    \* the short name chosen
    selected_player,         \* the local "player": None, or the player
                             \* object got: [name, ext_name, conn, flags]
    prompts,                 \* the prompts shown to the user, in order
    ownerAtCall,             \* the owners of the bus names when it began
    constructed,             \* the names get_player was called for in this
                             \* call, in order
    menu_pc,                 \* build_console_menu: "idle", "select" (in
                             \* get_selected_player), "attached" or "raised"
    menu_player,             \* << the player given to the chapters menu >>
    sel_result,              \* "none" | "ok" | "error": how the call ended
    sel_raised,              \* the exception its caller observed
    \* --- the skips of a front-end (skip_player) ---
    seeks,                   \* the skips made: [offset, direction, x], x
                             \* being the offset handed to player.seek
    skip_raised,             \* the exception the last skip_player raised
    \* --- a call of is_object_path_valid ---
    validated                \* the last call: << [path, result] >>, result
                             \* being "True", "False" or the exception

envVars == << binding, reach, owner, position, metadata, caps, envEvents >>
objVars == << handles, player, pcache >>
callVars == << pc, cur, attempt, tidFor, tidValid, tidArg, curPos >>
obsVars == << opCalls, connCalls, bus, result, raised, ret, raises,
              envChanged, startLink, startPos, startMd, errorBefore >>
facVars == << unuseable_player_names, fpc, fcall, all_service_names, idx,
             running_player_names, attempts, memoAtCall, bindings, fresult,
             fraised >>
selVars == << sel_pc, running_players, player_names, selected_player_name,
             selected_player, prompts, ownerAtCall, constructed, menu_pc,
             menu_player, sel_result, sel_raised >>
skipVars == << seeks, skip_raised, validated >>
vars == << envVars, objVars, callVars, obsVars, facVars, selVars, skipVars >>

(***************************************************************************)
(* The environment: the remote players on the session bus.                 *)
(***************************************************************************)
EnvStep ==
    /\ pc # "done"
    /\ fpc # "done"
    /\ sel_pc # "done"
    /\ menu_pc \notin {"attached", "raised"}
    /\ envEvents < MaxEnvEvents
    /\ envEvents' = envEvents + 1
    /\ envChanged' = TRUE
    /\ UNCHANGED << binding, objVars, callVars, opCalls, connCalls, bus,
                    result, raised, ret, raises, startLink, startPos,
                    startMd, errorBefore >>
    /\ UNCHANGED << facVars, selVars, skipVars >>

\* The player goes away: obtaining its object now raises e.
PlayerExits(s, e) ==
    /\ reach[s] = "ok"
    /\ reach' = [reach EXCEPT ![s] = e]
    /\ EnvStep
    /\ UNCHANGED << owner, position, metadata, caps >>

\* The player comes (back) onto the bus, as a new connection.
PlayerStarts(s) ==
    /\ reach[s] # "ok"
    /\ reach' = [reach EXCEPT ![s] = "ok"]
    /\ owner' = [owner EXCEPT ![s] = @ + 1]
    /\ EnvStep
    /\ UNCHANGED << position, metadata, caps >>

\* The player restarts between two bus calls of the program.
PlayerRestarts(s) ==
    /\ reach[s] = "ok"
    /\ owner' = [owner EXCEPT ![s] = @ + 1]
    /\ EnvStep
    /\ UNCHANGED << reach, position, metadata, caps >>

\* The player moves to another track, or rewrites its metadata.
TrackChanges(s, md) ==
    /\ md # metadata[s]
    /\ metadata' = [metadata EXCEPT ![s] = md]
    /\ EnvStep
    /\ UNCHANGED << reach, owner, position, caps >>

\* Playback advances.
PositionAdvances(s) ==
    /\ position[s] < MaxPos
    /\ position' = [position EXCEPT ![s] = @ + 1]
    /\ EnvStep
    /\ UNCHANGED << reach, owner, metadata, caps >>

\* The player changes one of its capability flags.
CapabilityChanges(s, f) ==
    /\ caps' = [caps EXCEPT ![s] = IF f \in @ THEN @ \ {f} ELSE @ \cup {f}]
    /\ EnvStep
    /\ UNCHANGED << reach, owner, position, metadata >>

\* The remote end of Seek(x): a relative move, kept within the track.
RemoteSeek(s, x) ==
    LET to == position[s] + x
    IN  position' = [position EXCEPT ![s] =
                        IF to < 0 THEN 0 ELSE IF to > MaxPos THEN MaxPos ELSE to]

\* The remote end of SetPosition(id, x): ignored unless id is the current
\* track and x lies within it.
RemoteSetPosition(s, id, x) ==
    IF /\ "mpris:trackid" \in DOMAIN metadata[s]
       /\ metadata[s]["mpris:trackid"] = id
       /\ x \in 0..MaxPos
    THEN position' = [position EXCEPT ![s] = x]
    ELSE UNCHANGED position

\* The remote end of org.freedesktop.DBus.Properties.Get(iface, prop).
RemoteHas(iface, prop) ==
    /\ iface = PlayerIface
    /\ prop \in {"PlaybackStatus", "Position", "Metadata"} \cup CapabilityFlags

(***************************************************************************)
(* The Player handles (Player_pydbus, Player_dbus_python).                 *)
(***************************************************************************)
NoCache == [f \in CapabilityFlags |-> "unset"]

\* No capability flag fetched yet through a handle.
NoFetch == [f \in CapabilityFlags |-> << >>]

CacheHit_never(slot) == FALSE

\* functools.cached_property: a filled slot answers without running the
\* method.
CacheHit(slot) == slot # "unset"

\* A bus invocation through handle h reaches the player: the service is
\* there and the handle's proxy object addresses its current connection.
BusOk(h) ==
    /\ reach[handles[h].name] = "ok"
    /\ handles[h].conn = owner[handles[h].name]

\* How handle h stands to its player.
Link(h) ==
    IF BusOk(h) THEN "ok"
    ELSE IF reach[handles[h].name] = "ok" THEN "stale" ELSE "down"

\* Player_pydbus.connect / Player_dbus_python.connect: "ok", or the
\* exception it raises, given what obtaining the object does (r).
\* bus.get of pydbus introspects the object: KeyError when it exports
\* nothing, GLib.Error when the name has no owner; only KeyError is caught.
\* bus.get_object of dbus-python resolves the owner of the name and raises
\* when there is none; every exception is caught and a plain Exception
\* raised.
ConnectOutcome(b, r) ==
    IF b = "pydbus"
    THEN (CASE r = "ok" -> "ok"
            [] r = "KeyError" -> "PlayerConnectionError"
            [] r = "Error" -> "GLibError")
    ELSE (IF r = "Error" THEN "Exception" ELSE "ok")

\* The bus name connect() addresses: self._name.
ConnectName(h) == handles[h].name

Reconnected_renamed(hd, c) == [hd EXCEPT !.conn = c, !.name = MpvName]

\* The handle after a connect() that returned: the proxy objects are
\* obtained anew from the bus, for the name the handle was built with.
Reconnected(hd, c) == [hd EXCEPT !.conn = c]

\* Player.__init__(mpris_player_name, ext_player_name): the names are
\* stored and connect() is called; a raise leaves no object behind.
NewPlayer(p) ==
    /\ pc = "idle"
    /\ Len(handles) < MaxHandles
    /\ IF ConnectOutcome(binding, reach[p[1]]) = "ok"
       THEN handles' = Append(handles,
                [name |-> p[1], ext_name |-> p[2], conn |-> owner[p[1]],
                 ccache |-> NoCache, fetched |-> NoFetch])
       ELSE UNCHANGED handles
    /\ UNCHANGED << envVars, player, pcache, callVars, obsVars >>
    /\ UNCHANGED << facVars, selVars, skipVars >>

(***************************************************************************)
(* The PlayerProxy.                                                        *)
(***************************************************************************)
SimpleCommands ==
    {"raise_window", "play", "play_pause", "pause", "next", "previous", "stop"}

\* The methods wrapped by @reconnect_player.
Reconnecting == SimpleCommands \cup {"seek", "set_position", "get"}

\* The remote method each simple command (and seek) invokes.
BusMethod(op) ==
    CASE op = "raise_window" -> "Raise"
      [] op = "play" -> "Play"
      [] op = "play_pause" -> "PlayPause"
      [] op = "pause" -> "Pause"
      [] op = "next" -> "Next"
      [] op = "previous" -> "Previous"
      [] op = "stop" -> "Stop"
      [] op = "seek" -> "Seek"

TheCall(op, arg, iface, prop) ==
    [op |-> op, arg |-> arg, iface |-> iface, prop |-> prop]

\* The calls a front-end makes: the commands with their arguments.
CommandCalls ==
    { TheCall(op, 0, "", "") : op \in SimpleCommands }
    \cup { TheCall("seek", x, "", "") : x \in {-1, 1} }
    \cup { TheCall("set_position", t, "", "") : t \in 0..MaxPos }
    \cup { TheCall("get", 0, PlayerIface, "Position") }

\* One bus invocation, as logged: the handle, the remote method and its
\* arguments, and whether it reached the player.
BusCall(h, m, iface, prop, id, x) ==
    [h |-> h, name |-> handles[h].name, m |-> m, iface |-> iface,
     prop |-> prop, id |-> id, x |-> x,
     ok |-> BusOk(h) /\ (m = "Get" => RemoteHas(iface, prop))]

\* Where the handle's operation starts.
FirstPc(op) ==
    CASE op \in SimpleCommands \cup {"seek"} -> "method"
      [] op = "get" -> "get"
      [] op = "set_position" -> "trackid_in"
      [] op = "connect" -> "connect_cmd"

\* Variants of the policy: one that never reconnects, one that reconnects
\* after every failure.
reconnect_player_never(att) == "propagate"
reconnect_player_always(att) == "connect"

\* reconnect_player: what follows an exception out of func(self, ...), on
\* the first invocation (att = 1) and on the second.
reconnect_player(att) == IF att = 1 THEN "connect" ELSE "propagate"

\* A variant that takes the except branch whatever the invocation.
OnRaise_loop(op, att) == IF op \in Reconnecting THEN "connect" ELSE "propagate"

OnRaise(op, att) ==
    IF op \in Reconnecting THEN reconnect_player(att) ELSE "propagate"

\* --- how a step of a call ends ---
Finish(res, exc, v) ==
    /\ pc' = "done"
    /\ result' = res
    /\ raised' = exc
    /\ ret' = v

\* The operation returns v to the caller.
Returns(v) ==
    /\ Finish("ok", "", v)
    /\ UNCHANGED << raises, attempt >>

\* The handle's operation raises exc.
Raises(exc) ==
    /\ raises' = raises + 1
    /\ IF OnRaise(cur.op, attempt) = "connect"
       THEN pc' = "connect" /\ UNCHANGED << result, raised, ret >>
       ELSE Finish("error", exc, None)
    /\ UNCHANGED attempt

Goto(l) ==
    /\ pc' = l
    /\ UNCHANGED << result, raised, ret, raises, attempt >>

\* What every call starts with: the observations of the call begin.
CallStart(c) ==
    /\ pc = "idle"
    /\ cur' = c
    /\ attempt' = 1
    /\ connCalls' = 0
    /\ bus' = << >>
    /\ raises' = 0
    /\ envChanged' = FALSE
    /\ tidValid' = EmptyTrackId
    /\ tidArg' = EmptyTrackId
    /\ curPos' = 0
    /\ IF player = 0
       THEN /\ startLink' = "none"
            /\ startPos' = 0
            /\ startMd' = MetadataNoTrackId
       ELSE /\ startLink' = Link(player)
            /\ startPos' = position[handles[player].name]
            /\ startMd' = metadata[handles[player].name]
    /\ UNCHANGED << envVars, errorBefore >>
    /\ UNCHANGED << facVars, selVars, skipVars >>

\* The handle's operation is entered.
Enter(l) ==
    /\ pc' = l
    /\ opCalls' = 1
    /\ result' = "none"
    /\ raised' = ""
    /\ ret' = None

\* The call ends without entering the handle.
Leave(v) ==
    /\ Finish("ok", "", v)
    /\ opCalls' = 0

\* A front-end calls a command, proxy.<op>(...). With no player attached the
\* method body does nothing and the call returns None.
Call(c) ==
    /\ CallStart(c)
    /\ tidFor' = "valid"
    /\ IF player = 0 THEN Leave(None) ELSE Enter(FirstPc(c.op))
    /\ UNCHANGED objVars

\* The call is over: control is back in the front-end, which holds no more
\* of the call than what it was handed.
ReturnToCaller ==
    /\ pc = "done"
    /\ pc' = "idle"
    /\ cur' = TheCall("none", 0, "", "")
    /\ attempt' = 1
    /\ tidFor' = "valid"
    /\ tidValid' = EmptyTrackId
    /\ tidArg' = EmptyTrackId
    /\ curPos' = 0
    /\ opCalls' = 0
    /\ connCalls' = 0
    /\ bus' = << >>
    /\ result' = "none"
    /\ raised' = ""
    /\ ret' = None
    /\ raises' = 0
    /\ envChanged' = FALSE
    /\ startLink' = "none"
    /\ startPos' = 0
    /\ startMd' = MetadataNoTrackId
    /\ errorBefore' = (errorBefore \/ result = "error")
    /\ UNCHANGED << envVars, objVars >>
    /\ UNCHANGED << facVars, selVars, skipVars >>

\* set_player(player)
SetPlayer(h) ==
    /\ pc = "idle"
    /\ player' = h
    /\ UNCHANGED << envVars, handles, pcache, callVars, obsVars >>
    /\ UNCHANGED << facVars, selVars, skipVars >>

\* self._player.<command>(): one remote method call.
StepMethod ==
    /\ pc = "method"
    /\ LET s == handles[player].name
           m == BusMethod(cur.op)
       IN  /\ bus' = Append(bus, BusCall(player, m, "", "", EmptyTrackId, cur.arg))
           /\ IF BusOk(player)
              THEN /\ Returns(None)
                   /\ IF m = "Seek" THEN RemoteSeek(s, cur.arg)
                                    ELSE UNCHANGED position
              ELSE /\ Raises("DBusError")
                   /\ UNCHANGED position
    /\ UNCHANGED << binding, reach, owner, metadata, caps, envEvents, objVars,
                    cur, tidFor, tidValid, tidArg, curPos, opCalls, connCalls,
                    envChanged, startLink, startPos, startMd, errorBefore >>
    /\ UNCHANGED << facVars, selVars, skipVars >>

\* PlayerProxy.get(interface_name, property_name) hands both on by position
\* to Player.get(property_name, interface_name=...).
ProxyGetArgs(interface_name, property_name) ==
    [property_name |-> interface_name, interface_name |-> property_name]

\* self._player.get(...): mpris_player_properties.Get(interface_name,
\* property_name); the proxy drops the value.
StepGet ==
    /\ pc = "get"
    /\ LET a == ProxyGetArgs(cur.iface, cur.prop)
       IN  /\ bus' = Append(bus, BusCall(player, "Get", a.interface_name,
                                         a.property_name, EmptyTrackId, 0))
           /\ IF BusOk(player) /\ RemoteHas(a.interface_name, a.property_name)
              THEN Returns(None)
              ELSE Raises("DBusError")
    /\ UNCHANGED << envVars, objVars, cur, tidFor, tidValid, tidArg, curPos,
                    opCalls, connCalls, envChanged, startLink, startPos,
                    startMd, errorBefore >>
    /\ UNCHANGED << facVars, selVars, skipVars >>

\* A connect() of handle h, as logged with the bus invocations.
ConnectLog(h, out) ==
    [h |-> h, name |-> ConnectName(h), m |-> "connect", iface |-> "",
     prop |-> "", id |-> EmptyTrackId, x |-> 0, ok |-> out = "ok"]

AfterConnect_retry(out) == "retry"

\* reconnect_player after self.connect(): func is called again when
\* connect() returned; what connect() raises leaves the decorator.
AfterConnect(out) == IF out = "ok" THEN "retry" ELSE "propagate"

\* The except branch of reconnect_player: self.connect(), which is
\* PlayerProxy.connect and so the handle's connect(); then func again.
StepReconnect ==
    /\ pc = "connect"
    /\ connCalls' = connCalls + 1
    /\ LET s == ConnectName(player)
           out == ConnectOutcome(binding, reach[s])
       IN  /\ bus' = Append(bus, ConnectLog(player, out))
           /\ IF AfterConnect(out) = "retry"
              THEN /\ handles' = IF out = "ok"
                                  THEN [handles EXCEPT
                                          ![player] = Reconnected(@, owner[s])]
                                  ELSE handles
                   /\ attempt' = 2
                   /\ opCalls' = opCalls + 1
                   /\ pc' = FirstPc(cur.op)
                   /\ tidFor' = "valid"
                   /\ UNCHANGED << result, raised, ret >>
              ELSE /\ Finish("error", out, None)
                   /\ UNCHANGED << handles, attempt, opCalls, tidFor >>
    /\ UNCHANGED << envVars, player, pcache, cur, tidValid, tidArg, curPos,
                    raises, envChanged, startLink, startPos, startMd, errorBefore >>
    /\ UNCHANGED << facVars, selVars, skipVars >>

\* PlayerProxy.connect(), called by a front-end: @handle_player_error logs
\* and re-raises what the handle's connect() raises.
ConnectCall == TheCall("connect", 0, "", "")

StepProxyConnect ==
    /\ pc = "connect_cmd"
    /\ connCalls' = connCalls + 1
    /\ LET s == ConnectName(player)
           out == ConnectOutcome(binding, reach[s])
       IN  /\ bus' = Append(bus, ConnectLog(player, out))
           /\ IF out = "ok"
              THEN /\ handles' = [handles EXCEPT
                                      ![player] = Reconnected(@, owner[s])]
                   /\ Returns(None)
              ELSE /\ Raises(out)
                   /\ UNCHANGED handles
    /\ UNCHANGED << envVars, player, pcache, cur, tidFor, tidValid, tidArg,
                    curPos, opCalls, envChanged, startLink, startPos,
                    startMd, errorBefore >>
    /\ UNCHANGED << facVars, selVars, skipVars >>

\* --- Player.trackid: two reads of the Metadata property ---

\* The trackid property hands back v; what the caller does with it.
TrackidDone(v) ==
    CASE tidFor = "valid" ->
            \* set_position: if is_object_path_valid(self.trackid)
            IF is_object_path_valid(v)
            THEN /\ Goto("trackid_in")
                 /\ tidFor' = "SetPosition"
                 /\ tidValid' = v
                 /\ UNCHANGED tidArg
            ELSE /\ Goto("Position")
                 /\ UNCHANGED << tidFor, tidValid, tidArg >>
      [] tidFor = "SetPosition" ->
            \* set_position: SetPosition(self.trackid, to_position)
            /\ Goto("SetPosition")
            /\ tidArg' = v
            /\ UNCHANGED << tidFor, tidValid >>
      [] tidFor = "trackid" ->
            \* proxy.trackid
            /\ Returns(ObjVal(v))
            /\ UNCHANGED << tidFor, tidValid, tidArg >>

\* if "mpris:trackid" in self.metadata
StepTrackidIn ==
    /\ pc = "trackid_in"
    /\ bus' = Append(bus, BusCall(player, "Get", PlayerIface, "Metadata",
                                  EmptyTrackId, 0))
    /\ IF ~BusOk(player)
       THEN /\ Raises("DBusError")
            /\ UNCHANGED << tidFor, tidValid, tidArg >>
       ELSE IF "mpris:trackid" \in DOMAIN metadata[handles[player].name]
       THEN /\ Goto("trackid_idx")
            /\ UNCHANGED << tidFor, tidValid, tidArg >>
       ELSE TrackidDone(EmptyTrackId)
    /\ UNCHANGED << envVars, objVars, cur, curPos, opCalls, connCalls,
                    envChanged, startLink, startPos, startMd, errorBefore >>
    /\ UNCHANGED << facVars, selVars, skipVars >>

\* return self.metadata["mpris:trackid"]
StepTrackidIdx ==
    /\ pc = "trackid_idx"
    /\ bus' = Append(bus, BusCall(player, "Get", PlayerIface, "Metadata",
                                  EmptyTrackId, 0))
    /\ IF ~BusOk(player)
       THEN /\ Raises("DBusError")
            /\ UNCHANGED << tidFor, tidValid, tidArg >>
       ELSE IF "mpris:trackid" \in DOMAIN metadata[handles[player].name]
       THEN TrackidDone(metadata[handles[player].name]["mpris:trackid"])
       ELSE /\ Raises("KeyError")
            /\ UNCHANGED << tidFor, tidValid, tidArg >>
    /\ UNCHANGED << envVars, objVars, cur, curPos, opCalls, connCalls,
                    envChanged, startLink, startPos, startMd, errorBefore >>
    /\ UNCHANGED << facVars, selVars, skipVars >>

\* --- Player.set_position(to_position) after the validity test ---

\* self.mpris_player.SetPosition(self.trackid, to_position)
StepSetPosition ==
    /\ pc = "SetPosition"
    /\ bus' = Append(bus, BusCall(player, "SetPosition", "", "", tidArg, cur.arg))
    /\ IF BusOk(player)
       THEN /\ Returns(None)
            /\ RemoteSetPosition(handles[player].name, tidArg, cur.arg)
       ELSE /\ Raises("DBusError")
            /\ UNCHANGED position
    /\ UNCHANGED << binding, reach, owner, metadata, caps, envEvents, objVars,
                    cur, tidFor, tidValid, tidArg, curPos, opCalls, connCalls,
                    envChanged, startLink, startPos, startMd, errorBefore >>
    /\ UNCHANGED << facVars, selVars, skipVars >>

\* cur_pos = self.position
StepPosition ==
    /\ pc = "Position"
    /\ bus' = Append(bus, BusCall(player, "Get", PlayerIface, "Position",
                                  EmptyTrackId, 0))
    /\ IF BusOk(player)
       THEN /\ Goto("Seek")
            /\ curPos' = position[handles[player].name]
       ELSE /\ Raises("DBusError")
            /\ UNCHANGED curPos
    /\ UNCHANGED << envVars, objVars, cur, tidFor, tidValid, tidArg, opCalls,
                    connCalls, envChanged, startLink, startPos, startMd, errorBefore >>
    /\ UNCHANGED << facVars, selVars, skipVars >>

\* seek_to_position = to_position - cur_pos
SeekToPosition(to_position, cur_pos) == to_position - cur_pos

\* self.seek(seek_to_position)
StepSeek ==
    /\ pc = "Seek"
    /\ LET x == SeekToPosition(cur.arg, curPos)
       IN  /\ bus' = Append(bus, BusCall(player, "Seek", "", "", EmptyTrackId, x))
           /\ IF BusOk(player)
              THEN /\ Returns(None)
                   /\ RemoteSeek(handles[player].name, x)
              ELSE /\ Raises("DBusError")
                   /\ UNCHANGED position
    /\ UNCHANGED << binding, reach, owner, metadata, caps, envEvents, objVars,
                    cur, tidFor, tidValid, tidArg, curPos, opCalls, connCalls,
                    envChanged, startLink, startPos, startMd, errorBefore >>
    /\ UNCHANGED << facVars, selVars, skipVars >>

(***************************************************************************)
(* The session: one PlayerProxy, built as PlayerProxy(None), the handles   *)
(* the front-end builds and attaches, and the commands it sends.           *)
(***************************************************************************)
InitEnv ==
    /\ binding \in {"pydbus", "dbus_python"}
    /\ reach = [s \in BusNames |-> "ok"]
    /\ owner = [s \in BusNames |-> 1]
    /\ position = [s \in Services |-> 0]
    /\ metadata = [s \in Services |-> MetadataWith(ValidTrackId)]
    /\ caps = [s \in BusPlayers |-> CapabilityFlags]
    /\ envEvents = 0

InitCall ==
    /\ pc = "idle"
    /\ cur = TheCall("none", 0, "", "")
    /\ attempt = 1
    /\ tidFor = "valid"
    /\ tidValid = EmptyTrackId
    /\ tidArg = EmptyTrackId
    /\ curPos = 0
    /\ opCalls = 0
    /\ connCalls = 0
    /\ bus = << >>
    /\ result = "none"
    /\ raised = ""
    /\ ret = None
    /\ raises = 0
    /\ envChanged = FALSE
    /\ startLink = "none"
    /\ startPos = 0
    /\ startMd = MetadataNoTrackId
    /\ errorBefore = FALSE

InitFactory ==
    /\ unuseable_player_names = << >>
    /\ fpc = "idle"
    /\ fcall = ""
    /\ all_service_names = << >>
    /\ idx = 1
    /\ running_player_names = << >>
    /\ attempts = << >>
    /\ memoAtCall = << >>
    /\ bindings = {}
    /\ fresult = "none"
    /\ fraised = ""

InitSkip ==
    /\ seeks = << >>
    /\ skip_raised = ""
    /\ validated = << >>

InitSelect ==
    /\ sel_pc = "idle"
    /\ running_players = << >>
    /\ player_names = << >>
    /\ selected_player_name = << >>
    /\ selected_player = None
    /\ prompts = << >>
    /\ ownerAtCall = owner
    /\ constructed = << >>
    /\ menu_pc = "idle"
    /\ menu_player = << >>
    /\ sel_result = "none"
    /\ sel_raised = ""

Init ==
    /\ InitEnv
    /\ handles = << >>
    /\ player = 0
    /\ pcache = NoCache
    /\ InitCall
    /\ InitFactory
    /\ InitSelect
    /\ InitSkip

Environment ==
    \/ \E s \in Services, e \in {"KeyError", "Error"} : PlayerExits(s, e)
    \/ \E s \in Services : PlayerStarts(s)
    \/ \E s \in Services : PlayerRestarts(s)
    \/ \E s \in Services, md \in Metadatas : TrackChanges(s, md)
    \/ \E s \in Services : PositionAdvances(s)

Next ==
    \/ \E p \in PlayerNames : NewPlayer(p)
    \/ \E h \in 0..Len(handles) : SetPlayer(h)
    \/ \E c \in CommandCalls \cup {ConnectCall} : Call(c)
    \/ ReturnToCaller
    \/ StepMethod
    \/ StepGet
    \/ StepReconnect
    \/ StepProxyConnect
    \/ StepTrackidIn
    \/ StepTrackidIdx
    \/ StepSetPosition
    \/ StepPosition
    \/ StepSeek
    \/ Environment

Spec == Init /\ [][Next]_vars

(***************************************************************************)
(* The properties of the PlayerProxy.                                      *)
(***************************************************************************)
PlainProperties == {"playback_status", "position", "metadata"}
FlagProperties == {"can_control", "can_seek", "can_pause", "can_play"}
Properties ==
    {"name", "ext_name", "trackid"} \cup PlainProperties \cup FlagProperties

PropertyCalls == { TheCall(op, 0, "", "") : op \in Properties }

\* The remote property each property of the handle reads.
PropertyName(op) ==
    CASE op = "playback_status" -> "PlaybackStatus"
      [] op = "position" -> "Position"
      [] op = "metadata" -> "Metadata"
      [] op = "can_control" -> "CanControl"
      [] op = "can_seek" -> "CanSeek"
      [] op = "can_pause" -> "CanPause"
      [] op = "can_play" -> "CanPlay"

\* A cached_property slot as a value: "unset", "None", "True", "False".
Cached(v) == IF v = "None" THEN None ELSE BoolVal(v = "True")

\* A front-end reads proxy.<property>. The capability flags are
\* cached_property on the proxy and on the handle: a filled slot answers
\* without running the method.
CallProperty(c) ==
    /\ CallStart(c)
    /\ tidFor' = "trackid"
    /\ IF c.op \in FlagProperties /\ CacheHit(pcache[PropertyName(c.op)])
       THEN /\ Leave(Cached(pcache[PropertyName(c.op)]))
            /\ UNCHANGED objVars
       ELSE IF player = 0
       THEN /\ Leave(None)
            /\ pcache' = IF c.op \in FlagProperties
                         THEN [pcache EXCEPT ![PropertyName(c.op)] = "None"]
                         ELSE pcache
            /\ UNCHANGED << handles, player >>
       ELSE IF c.op = "name"
       THEN /\ Finish("ok", "", StrVal(handles[player].name))
            /\ opCalls' = 1
            /\ UNCHANGED objVars
       ELSE IF c.op = "ext_name"
       THEN /\ Finish("ok", "", StrVal(handles[player].ext_name))
            /\ opCalls' = 1
            /\ UNCHANGED objVars
       ELSE IF /\ c.op \in FlagProperties
               /\ CacheHit(handles[player].ccache[PropertyName(c.op)])
       THEN /\ Finish("ok", "", Cached(handles[player].ccache[PropertyName(c.op)]))
            /\ opCalls' = 1
            /\ pcache' = [pcache EXCEPT ![PropertyName(c.op)] =
                              handles[player].ccache[PropertyName(c.op)]]
            /\ UNCHANGED << handles, player >>
       ELSE /\ Enter(IF c.op = "trackid" THEN "trackid_in" ELSE "property")
            /\ UNCHANGED objVars

\* The value of a remote property.
RemoteValue(s, prop) ==
    CASE prop = "PlaybackStatus" -> StrVal("Playing")
      [] prop = "Position" -> IntVal(position[s])
      [] prop = "Metadata" -> ObjVal(metadata[s])
      [] prop \in CapabilityFlags -> BoolVal(prop \in caps[s])

\* return self.get(property_name=...): one Properties.Get; a capability
\* flag fills the slot of the handle and that of the proxy.
StepProperty ==
    /\ pc = "property"
    /\ LET s == handles[player].name
           prop == PropertyName(cur.op)
           slot == IF prop \in caps[s] THEN "True" ELSE "False"
       IN  /\ bus' = Append(bus, BusCall(player, "Get", PlayerIface, prop,
                                         EmptyTrackId, 0))
           /\ IF BusOk(player)
              THEN /\ Returns(RemoteValue(s, prop))
                   /\ IF prop \in CapabilityFlags
                      THEN /\ handles' = [handles EXCEPT
                                           ![player].ccache[prop] = slot,
                                           ![player].fetched[prop] =
                                               Append(@, slot)]
                           /\ pcache' = [pcache EXCEPT ![prop] = slot]
                      ELSE UNCHANGED << handles, pcache >>
              ELSE /\ Raises("DBusError")
                   /\ UNCHANGED << handles, pcache >>
    /\ UNCHANGED << envVars, player, cur, tidFor, tidValid, tidArg, curPos,
                    opCalls, connCalls, envChanged, startLink, startPos,
                    startMd, errorBefore >>
    /\ UNCHANGED << facVars, selVars, skipVars >>

\* PlayerProxy.__init__(player): a new proxy around handle h (0: None) takes
\* the place of the one the front-end held; its cached_property slots are
\* empty.
NewProxy(h) ==
    /\ pc = "idle"
    /\ player' = h
    /\ pcache' = NoCache
    /\ UNCHANGED << envVars, handles, callVars, obsVars >>
    /\ UNCHANGED << facVars, selVars, skipVars >>

FlagCalls == { TheCall(op, 0, "", "") : op \in FlagProperties }

\* The environment as the reads of the capability flags meet it.
EnvironmentOfFlags ==
    \/ \E s \in Services, e \in {"KeyError", "Error"} : PlayerExits(s, e)
    \/ \E s \in Services : PlayerStarts(s)
    \/ \E s \in Services, f \in CapabilityFlags : CapabilityChanges(s, f)

NextFlags ==
    \/ \E p \in PlayerNames : NewPlayer(p)
    \/ \E h \in 0..Len(handles) : SetPlayer(h)
    \/ \E h \in 0..Len(handles) : NewProxy(h)
    \/ \E c \in FlagCalls : CallProperty(c)
    \/ ReturnToCaller
    \/ StepProperty
    \/ EnvironmentOfFlags

SpecFlags == Init /\ [][NextFlags]_vars

\* The environment as the property reads meet it.
EnvironmentOfReads ==
    \/ \E s \in Services, e \in {"KeyError", "Error"} : PlayerExits(s, e)
    \/ \E s \in Services : PlayerStarts(s)
    \/ \E s \in Services : PlayerRestarts(s)
    \/ \E s \in Services, md \in Metadatas : TrackChanges(s, md)

NextProps ==
    \/ \E p \in PlayerNames : NewPlayer(p)
    \/ \E h \in 0..Len(handles) : SetPlayer(h)
    \/ \E c \in PropertyCalls : CallProperty(c)
    \/ ReturnToCaller
    \/ StepProperty
    \/ StepTrackidIn
    \/ StepTrackidIdx
    \/ EnvironmentOfReads

SpecProps == Init /\ [][NextProps]_vars

(***************************************************************************)
(* The PlayerFactory.                                                      *)
(***************************************************************************)
\* media_player_prefix in service: the substring test of Python.
Contains(sub, str) ==
    \E i \in 1..(Len(str) - Len(sub) + 1) :
        SubSeq(str, i, i + Len(sub) - 1) = sub

\* str[k:] of Python, for 0 <= k.
SliceFrom(str, k) == SubSeq(str, k + 1, Len(str))

\* running_player_names[key] = value.
DictSet(d, key, value) ==
    [k \in DOMAIN d \cup {key} |-> IF k = key THEN value ELSE d[k]]

EmptyDict == [k \in {} |-> << >>]

Memoize_alone(memo, service) == << service >>

\* PlayerFactory.unuseable_player_names.append(service)
Memoize(memo, service) == Append(memo, service)

InMemo_never(service, memo) == FALSE

\* service in PlayerFactory.unuseable_player_names
InMemo(service, memo) == service \in Range(memo)

\* PlayerFactory.get_player: "PlayerProxy" when it returns, else the
\* exception that leaves it. With pydbus the try body builds the handle and
\* the clauses after it turn what connect() raises into PlayerCreationError.
\* With dbus-python, type(pydbus) raises NameError and the handle is built
\* inside that except clause: what connect() raises there is not caught by
\* the clauses that follow it.
ImportedNames_both(b) == {"pydbus", "dbus"}

\* The module names bound by "try: import pydbus / except ImportError:
\* import dbus", given the binding the import found.
ImportedNames(b) == IF b = "pydbus" THEN {"pydbus"} ELSE {"dbus"}

\* get_running_player_names lists the names with dbus, and with pydbus when
\* the name dbus raises NameError.
ListNamesBinding(names) ==
    IF "dbus" \in names THEN "dbus_python" ELSE "pydbus"

\* get_player builds a Player_pydbus, and a Player_dbus_python when
\* type(pydbus) raises NameError.
GetPlayerBinding(names) ==
    IF "pydbus" \in names THEN "pydbus" ELSE "dbus_python"

\* A use of a binding, as observed: by the listing of the names or by
\* get_player.
Used(call, b) == [call |-> call, binding |-> b]

get_player_always(b, r) == "PlayerProxy"

get_player(b, r) ==
    LET c == ConnectOutcome(b, r)
    IN  IF c = "ok" THEN "PlayerProxy"
        ELSE IF b = "pydbus" THEN "PlayerCreationError"
        ELSE c

\* The orders in which ListNames may give the names S.
Orders(S) ==
    { q \in [1..Cardinality(S) -> S] : Range(q) = S }

FactoryUnchanged ==
    UNCHANGED << envVars, objVars, callVars, obsVars, selVars, skipVars >>

\* A front-end calls PlayerFactory.get_player(fq_player_name,
\* short_player_name) itself.
GetPlayer(fq_player_name) ==
    /\ pc = "idle"
    /\ fpc = "idle"
    /\ LET b == GetPlayerBinding(ImportedNames(binding))
           outcome == get_player(b, reach[fq_player_name])
       IN  /\ attempts' = << [service |-> fq_player_name,
                               connect |-> ConnectOutcome(
                                   b, reach[fq_player_name]),
                               outcome |-> outcome] >>
           /\ bindings' = bindings \cup {Used("get_player", b)}
           /\ fresult' = IF outcome = "PlayerProxy" THEN "ok" ELSE "error"
           /\ fraised' = IF outcome = "PlayerProxy" THEN "" ELSE outcome
    /\ fpc' = "done"
    /\ fcall' = "get_player"
    /\ memoAtCall' = unuseable_player_names
    /\ UNCHANGED << unuseable_player_names, all_service_names, idx,
                    running_player_names >>
    /\ FactoryUnchanged

\* get_running_player_names() begins: the names owned on the bus are
\* listed, with whichever binding was imported.
Discover ==
    /\ pc = "idle"
    /\ fpc = "idle"
    /\ \E q \in Orders({ n \in BusNames : reach[n] # "Error" }) :
           all_service_names' = q
    /\ idx' = 1
    /\ running_player_names' = EmptyDict
    /\ attempts' = << >>
    /\ memoAtCall' = unuseable_player_names
    /\ bindings' = bindings \cup
           {Used("list_names", ListNamesBinding(ImportedNames(binding)))}
    /\ fpc' = "loop"
    /\ fcall' = "get_running_player_names"
    /\ fresult' = "none"
    /\ fraised' = ""
    /\ UNCHANGED unuseable_player_names
    /\ FactoryUnchanged

\* One turn of "for service in all_service_names".
DiscoverStep ==
    /\ fpc = "loop"
    /\ idx <= Len(all_service_names)
    /\ LET service == all_service_names[idx]
           service_suffix == SliceFrom(service, Len(media_player_prefix) + 1)
           b == GetPlayerBinding(ImportedNames(binding))
           outcome == get_player(b, reach[service])
           attempted == Append(attempts,
                               [service |-> service,
                                connect |-> ConnectOutcome(b, reach[service]),
                                outcome |-> outcome])
       IN  IF \/ ~Contains(media_player_prefix, service)
              \/ InMemo(service, unuseable_player_names)
           THEN /\ idx' = idx + 1
                /\ UNCHANGED << unuseable_player_names, running_player_names,
                                attempts, bindings, fpc, fresult, fraised >>
           ELSE IF outcome = "PlayerProxy"
           THEN /\ idx' = idx + 1
                /\ attempts' = attempted
                /\ bindings' = bindings \cup {Used("get_player", b)}
                /\ running_player_names' =
                       DictSet(running_player_names, service_suffix, service)
                /\ UNCHANGED << unuseable_player_names, fpc, fresult,
                                fraised >>
           ELSE IF outcome = "PlayerCreationError"
           THEN /\ idx' = idx + 1
                /\ attempts' = attempted
                /\ bindings' = bindings \cup {Used("get_player", b)}
                /\ unuseable_player_names' =
                       Memoize(unuseable_player_names, service)
                /\ UNCHANGED << running_player_names, fpc, fresult, fraised >>
           ELSE /\ attempts' = attempted
                /\ bindings' = bindings \cup {Used("get_player", b)}
                /\ fpc' = "done"
                /\ fresult' = "error"
                /\ fraised' = outcome
                /\ UNCHANGED << idx, unuseable_player_names,
                                running_player_names >>
    /\ UNCHANGED << fcall, all_service_names, memoAtCall >>
    /\ FactoryUnchanged

\* return running_player_names
DiscoverReturn ==
    /\ fpc = "loop"
    /\ idx > Len(all_service_names)
    /\ fpc' = "done"
    /\ fresult' = "ok"
    /\ UNCHANGED << unuseable_player_names, fcall, all_service_names, idx,
                    running_player_names, attempts, memoAtCall, bindings,
                    fraised >>
    /\ FactoryUnchanged

\* The factory call is over: its caller has what it returned or raised.
\* The memo is a class attribute and stays.
FactoryReturns ==
    /\ fpc = "done"
    /\ fpc' = "idle"
    /\ fcall' = ""
    /\ all_service_names' = << >>
    /\ idx' = 1
    /\ running_player_names' = << >>
    /\ attempts' = << >>
    /\ memoAtCall' = << >>
    /\ fresult' = "none"
    /\ fraised' = ""
    /\ UNCHANGED << unuseable_player_names, bindings >>
    /\ FactoryUnchanged

\* The players come and go while the factory works.
EnvironmentOfFactory ==
    \/ \E s \in BusPlayers, e \in {"KeyError", "Error"} : PlayerExits(s, e)
    \/ \E s \in BusPlayers : PlayerStarts(s)

NextFactory ==
    \/ \E n \in BusPlayers : GetPlayer(n)
    \/ Discover
    \/ DiscoverStep
    \/ DiscoverReturn
    \/ FactoryReturns
    \/ EnvironmentOfFactory

SpecFactory == Init /\ [][NextFactory]_vars

(***************************************************************************)
(* get_selected_player (lib/ui/console_ui.py, lib/helpers.py).             *)
(***************************************************************************)
\* The short name of a player: what follows the prefix and its dot.
ShortName(n) == SliceFrom(n, Len(media_player_prefix) + 1)

\* The dictionary get_running_player_names gives for the players S.
RunningPlayers(S) ==
    [k \in { ShortName(n) : n \in S } |->
        CHOOSE n \in S : ShortName(n) = k]

SelectsDirectly_never(names) == FALSE

\* if len(player_names) == 1
SelectsDirectly(names) == Len(names) = 1

is_player_useable_control_only(can_control, can_seek) == can_control

\* is_player_useable: player.can_control and player.can_seek
is_player_useable(can_control, can_seek) == can_control /\ can_seek

\* player_names.remove(selected_player_name): the first occurrence goes.
ListRemove_keep(names, n) == names

ListRemove(names, n) ==
    LET i == CHOOSE j \in DOMAIN names :
                 names[j] = n /\ \A k \in 1..(j - 1) : names[k] # n
    IN  SubSeq(names, 1, i - 1) \o SubSeq(names, i + 1, Len(names))

SelectUnchanged ==
    UNCHANGED << envVars, objVars, callVars, obsVars, facVars, skipVars,
                 menu_pc, menu_player >>

\* The call ends by raising exc.
SelectRaises(exc) ==
    /\ sel_pc' = "done"
    /\ sel_result' = "error"
    /\ sel_raised' = exc

SelectGoto(l) ==
    /\ sel_pc' = l
    /\ UNCHANGED << sel_result, sel_raised >>

\* get_selected_player(running_players) begins.
SelectBegins(S, names) ==
    /\ running_players' = RunningPlayers(S)
    /\ Range(names) = DOMAIN RunningPlayers(S)
    /\ prompts' = << >>
    /\ selected_player' = None
    /\ ownerAtCall' = owner
    /\ constructed' = << >>
    /\ IF S = {}
       THEN /\ SelectRaises("ValueError")
            /\ UNCHANGED << player_names, selected_player_name >>
       ELSE /\ player_names' = names
            /\ IF SelectsDirectly(names)
               THEN /\ selected_player_name' = names[1]
                    /\ SelectGoto("get_player")
               ELSE /\ SelectGoto("user_select_player")
                    /\ UNCHANGED selected_player_name

\* A front-end calls get_selected_player(running_players), the keys of the
\* dictionary being in the order names.
GetSelectedPlayer(S, names) ==
    /\ pc = "idle"
    /\ fpc = "idle"
    /\ sel_pc = "idle"
    /\ menu_pc = "idle"
    /\ SelectBegins(S, names)
    /\ SelectUnchanged

\* user_select_player(player_names): the user picks one of the names shown.
UserSelectsPlayer(n) ==
    /\ sel_pc = "user_select_player"
    /\ n \in Range(player_names)
    /\ prompts' = Append(prompts, [prompt |-> "user_select_player",
                                   shown |-> player_names])
    /\ selected_player_name' = n
    /\ SelectGoto("get_player")
    /\ UNCHANGED << running_players, player_names, selected_player,
                    ownerAtCall, constructed >>
    /\ SelectUnchanged

\* player = PlayerFactory.get_player(running_players[selected_player_name],
\* selected_player_name): a new handle in a new proxy, or the exception.
SelectGetPlayer ==
    /\ sel_pc = "get_player"
    /\ LET fq == running_players[selected_player_name]
           outcome == get_player(binding, reach[fq])
       IN  IF outcome = "PlayerProxy"
           THEN /\ selected_player' =
                       [name |-> fq, ext_name |-> selected_player_name,
                        conn |-> owner[fq], flags |-> NoCache]
                /\ SelectGoto("can_control")
           ELSE /\ SelectRaises(outcome)
                /\ UNCHANGED selected_player
    /\ constructed' = Append(constructed, selected_player_name)
    /\ UNCHANGED << running_players, player_names, selected_player_name,
                    prompts, ownerAtCall >>
    /\ SelectUnchanged

\* The player object reaches its player on the bus.
SelectedReaches ==
    /\ reach[selected_player.name] = "ok"
    /\ selected_player.conn = owner[selected_player.name]

\* player.can_control, the left operand of is_player_useable: fetched from
\* the player and kept by the cached_property of proxy and handle; the
\* right operand is read only when the left one is true.
ReadCanControl ==
    /\ sel_pc = "can_control"
    /\ IF ~SelectedReaches
       THEN /\ SelectRaises("DBusError")
            /\ UNCHANGED selected_player
       ELSE LET v == "CanControl" \in caps[selected_player.name]
            IN  /\ selected_player' =
                       [selected_player EXCEPT !.flags["CanControl"] =
                            IF v THEN "True" ELSE "False"]
                /\ SelectGoto(IF v THEN "can_seek" ELSE "not_useable")
    /\ UNCHANGED << running_players, player_names, selected_player_name,
                    prompts, ownerAtCall, constructed >>
    /\ SelectUnchanged

\* player.can_seek, and the end of is_player_useable: a useable player is
\* returned.
ReadCanSeek ==
    /\ sel_pc = "can_seek"
    /\ IF ~SelectedReaches
       THEN /\ SelectRaises("DBusError")
            /\ UNCHANGED selected_player
       ELSE LET v == "CanSeek" \in caps[selected_player.name]
            IN  /\ selected_player' =
                       [selected_player EXCEPT !.flags["CanSeek"] =
                            IF v THEN "True" ELSE "False"]
                /\ IF is_player_useable(
                          selected_player.flags["CanControl"] = "True", v)
                   THEN /\ sel_pc' = "done"
                        /\ sel_result' = "ok"
                        /\ UNCHANGED sel_raised
                   ELSE SelectGoto("not_useable")
    /\ UNCHANGED << running_players, player_names, selected_player_name,
                    prompts, ownerAtCall, constructed >>
    /\ SelectUnchanged

\* The body of the while loop up to the prompt: the name is removed, and
\* with no name left NoValidMprisPlayersError is raised.
NotUseable ==
    /\ sel_pc = "not_useable"
    /\ player_names' = ListRemove(player_names, selected_player_name)
    /\ IF player_names' = << >>
       THEN SelectRaises("NoValidMprisPlayersError")
       ELSE SelectGoto("user_try_another_player")
    /\ UNCHANGED << running_players, selected_player_name, selected_player,
                    prompts, ownerAtCall, constructed >>
    /\ SelectUnchanged

\* user_try_another_player(): the prompt is repeated until the answer is a
\* yes or a no.
UserAnswers(yes) ==
    /\ sel_pc = "user_try_another_player"
    /\ prompts' = Append(prompts, [prompt |-> "user_try_another_player",
                                   shown |-> player_names])
    /\ IF yes
       THEN SelectGoto("user_select_player")
       ELSE SelectRaises("NoValidMprisPlayersError")
    /\ UNCHANGED << running_players, player_names, selected_player_name,
                    selected_player, ownerAtCall, constructed >>
    /\ SelectUnchanged

\* The call is over: its caller has the player or the exception.
SelectReturns ==
    /\ sel_pc = "done"
    /\ menu_pc # "select"
    /\ sel_pc' = "idle"
    /\ running_players' = << >>
    /\ player_names' = << >>
    /\ selected_player_name' = << >>
    /\ selected_player' = None
    /\ prompts' = << >>
    /\ ownerAtCall' = owner
    /\ constructed' = << >>
    /\ sel_result' = "none"
    /\ sel_raised' = ""
    /\ SelectUnchanged

\* --- build_console_menu (lib/ui/console_ui.py) ---

MenuUnchanged ==
    UNCHANGED << envVars, objVars, callVars, obsVars, facVars, skipVars >>

\* The players get_running_player_names() can return now: those get_player
\* returns a PlayerProxy for.
Discoverable ==
    { n \in BusPlayers :
        get_player(GetPlayerBinding(ImportedNames(binding)), reach[n])
            = "PlayerProxy" }

\* build_console_menu(...) up to the choice of the player, running_players
\* being the mapping get_running_player_names() returned for the players
\* S: none raises PlayerCreationError, one is constructed with
\* PlayerFactory.get_player and given to the ChaptersMenuConsoleBuilder as
\* it is, several go to get_selected_player.
BuildConsoleMenu(S, names) ==
    /\ pc = "idle"
    /\ fpc = "idle"
    /\ sel_pc = "idle"
    /\ menu_pc = "idle"
    /\ S \subseteq Discoverable
    /\ Range(names) = DOMAIN RunningPlayers(S)
    /\ IF Len(names) = 0
       THEN /\ menu_pc' = "raised"
            /\ UNCHANGED << menu_player, sel_pc, running_players, player_names,
                            selected_player_name, selected_player, prompts,
                            ownerAtCall, constructed, sel_result, sel_raised >>
       ELSE IF Len(names) = 1
       THEN /\ menu_pc' = "attached"
            /\ menu_player' =
                   << [name |-> RunningPlayers(S)[names[1]],
                       ext_name |-> names[1],
                       conn |-> owner[RunningPlayers(S)[names[1]]],
                       flags |-> NoCache] >>
            /\ UNCHANGED << sel_pc, running_players, player_names,
                            selected_player_name, selected_player, prompts,
                            ownerAtCall, constructed, sel_result, sel_raised >>
       ELSE /\ menu_pc' = "select"
            /\ SelectBegins(S, names)
            /\ UNCHANGED menu_player
    /\ MenuUnchanged

\* get_selected_player is over: its player goes to the
\* ChaptersMenuConsoleBuilder, its exception leaves build_console_menu.
MenuContinues ==
    /\ menu_pc = "select"
    /\ sel_pc = "done"
    /\ IF sel_result = "ok"
       THEN /\ menu_pc' = "attached"
            /\ menu_player' = << selected_player >>
       ELSE /\ menu_pc' = "raised"
            /\ UNCHANGED menu_player
    /\ UNCHANGED << sel_pc, running_players, player_names,
                    selected_player_name, selected_player, prompts,
                    ownerAtCall, constructed, sel_result, sel_raised >>
    /\ MenuUnchanged

\* build_console_menu is over.
MenuReturns ==
    /\ menu_pc \in {"attached", "raised"}
    /\ menu_pc' = "idle"
    /\ menu_player' = << >>
    /\ UNCHANGED << sel_pc, running_players, player_names,
                    selected_player_name, selected_player, prompts,
                    ownerAtCall, constructed, sel_result, sel_raised >>
    /\ MenuUnchanged

\* The players come, go and change what they can do during the selection.
EnvironmentOfSelect ==
    \/ \E s \in BusPlayers, e \in {"KeyError", "Error"} : PlayerExits(s, e)
    \/ \E s \in BusPlayers : PlayerStarts(s)
    \/ \E s \in BusPlayers, f \in {"CanControl", "CanSeek"} :
           CapabilityChanges(s, f)

NextSelect ==
    \/ \E S \in SUBSET BusPlayers :
           \E names \in Orders({ ShortName(n) : n \in S }) :
               GetSelectedPlayer(S, names)
    \/ \E S \in SUBSET BusPlayers :
           \E names \in Orders({ ShortName(n) : n \in S }) :
               BuildConsoleMenu(S, names)
    \/ MenuContinues
    \/ MenuReturns
    \/ \E n \in { ShortName(m) : m \in BusPlayers } : UserSelectsPlayer(n)
    \/ SelectGetPlayer
    \/ ReadCanControl
    \/ ReadCanSeek
    \/ NotUseable
    \/ \E yes \in BOOLEAN : UserAnswers(yes)
    \/ SelectReturns
    \/ EnvironmentOfSelect

SpecSelect == Init /\ [][NextSelect]_vars

\* The steps of get_selected_player itself, and the answers of the user.
SelectSteps ==
    \/ SelectGetPlayer
    \/ ReadCanControl
    \/ ReadCanSeek
    \/ NotUseable

\* The interpreter runs the call on, and the user answers every prompt.
SpecSelectLive ==
    /\ SpecSelect
    /\ WF_vars(SelectSteps)
    /\ WF_vars(\E n \in { ShortName(m) : m \in BusPlayers } :
                   UserSelectsPlayer(n))
    /\ WF_vars(\E yes \in BOOLEAN : UserAnswers(yes))

(***************************************************************************)
(* to_microsecs and skip_player (lib/helpers.py, lib/ui/gui_controller.py). *)
(***************************************************************************)
\* class Direction(IntEnum)
FORWARD == 1
REVERSE == -1

DecimalDigits == <<"0", "1", "2", "3", "4", "5", "6", "7", "8", "9">>

DigitValue(c) == CHOOSE n \in 0..9 : DecimalDigits[n + 1] = c

IsDigit(c, upto) == \E n \in 0..upto : DecimalDigits[n + 1] = c

\* re.search("^[0-9][0-9]:[0-5][0-9]:[0-5][0-9]$", time_str) is not None;
\* Python's $ also matches just before a newline that ends the string.
TimeReSearch(time_str) ==
    /\ \/ Len(time_str) = 8
       \/ Len(time_str) = 9 /\ time_str[9] = "\n"
    /\ IsDigit(time_str[1], 9)
    /\ IsDigit(time_str[2], 9)
    /\ time_str[3] = ":"
    /\ IsDigit(time_str[4], 5)
    /\ IsDigit(time_str[5], 9)
    /\ time_str[6] = ":"
    /\ IsDigit(time_str[7], 5)
    /\ IsDigit(time_str[8], 9)

\* int(s) for a string of decimal digits with white space around it.
RECURSIVE IntOf(_)
IntOf(chars) ==
    IF chars = << >> THEN 0
    ELSE IF chars[Len(chars)] = "\n" THEN IntOf(SubSeq(chars, 1, Len(chars) - 1))
    ELSE 10 * IntOf(SubSeq(chars, 1, Len(chars) - 1))
         + DigitValue(chars[Len(chars)])

\* The int of Python has no width. An int that may pass 2^31 is kept as
\* two limbs: [hi, lo] is hi * Limb + lo, with lo of the sign of hi and
\* below Limb in magnitude.
Limb == 1000000

Truncate(a, b) == IF a >= 0 THEN a \div b ELSE 0 - ((0 - a) \div b)

Remainder(a, b) == a - b * Truncate(a, b)

\* hi * Limb + lo for any two small integers, as limbs.
Limbs(hi, lo) ==
    LET h == hi + Truncate(lo, Limb)
        l == Remainder(lo, Limb)
    IN  IF h > 0 /\ l < 0 THEN [hi |-> h - 1, lo |-> l + Limb]
        ELSE IF h < 0 /\ l > 0 THEN [hi |-> h + 1, lo |-> l - Limb]
        ELSE [hi |-> h, lo |-> l]

\* a * b for a small int a and an int constant b of the program.
Times(a, b) == Limbs(a * Truncate(b, Limb), a * Remainder(b, Limb))

\* x * k for limbs x and a small int k.
LimbsTimes(x, k) == Limbs(x.hi * k, x.lo * k)

LimbsPlus(x, y) == Limbs(x.hi + y.hi, x.lo + y.lo)

\* How a function ends: it returns value, or it raises exc.
Returned(value) == [exc |-> "", value |-> value]
Raised(exc) == [exc |-> exc, value |-> Limbs(0, 0)]

to_microsecs_without_secs(time_str) ==
    IF ~TimeReSearch(time_str) THEN Raised("ValueError")
    ELSE LET parts == Split(time_str, ":")
         IN  Returned(Times((IntOf(parts[1]) * 60) + IntOf(parts[2]),
                            60000000))

\* to_microsecs(time_str): the microseconds, or ValueError.
to_microsecs(time_str) ==
    IF ~TimeReSearch(time_str) THEN Raised("ValueError")
    ELSE LET parts == Split(time_str, ":")
             hours == IntOf(parts[1])
             mins == IntOf(parts[2])
             secs == IntOf(parts[3])
             total_mins == (hours * 60) + mins
             mins_in_microsecs == Times(total_mins, 60000000)
         IN  Returned(LimbsPlus(mins_in_microsecs, Times(secs, 1000000)))

\* The offsets a front-end is given in this model: times between 00:00:00
\* and 99:59:59, the same with a newline after them, and strings that are
\* no time.
TimeStrings ==
    { <<h, h2, ":", m, m2, ":", sec, s2>> \o tail :
        h \in {"0", "9"}, h2 \in {"9"}, m \in {"0", "5"},
        m2 \in {"9"}, sec \in {"3", "5"}, s2 \in {"0", "9"},
        tail \in {<< >>} }
    \cup { <<"0", "0", ":", "0", "0", ":", "0", "0">>,
           <<"0", "0", ":", "0", "0", ":", "3", "0">>,
           <<"0", "0", ":", "0", "1", ":", "0", "0">>,
           <<"0", "0", ":", "0", "0", ":", "3", "0", "\n">>,
           <<"0", "0", ":", "6", "0", ":", "0", "0">>,
           <<"0", ":", "0", "0", ":", "3", "0">>,
           <<"1", "0", "0", ":", "0", "0", ":", "0", "0">>,
           << >> }

\* How many skips are followed in a row.
MaxSkips == 2

\* skip_player(offset, direction): offset_with_dir =
\* to_microsecs(offset) * direction, then player.seek(offset_with_dir).
skip_player(offset, direction) ==
    /\ pc = "idle"
    /\ fpc = "idle"
    /\ sel_pc = "idle"
    /\ Len(seeks) < MaxSkips
    /\ skip_raised = ""
    /\ IF to_microsecs(offset).exc # ""
       THEN /\ skip_raised' = to_microsecs(offset).exc
            /\ UNCHANGED seeks
       ELSE /\ seeks' = Append(seeks,
                   [offset |-> offset, direction |-> direction,
                    x |-> LimbsTimes(to_microsecs(offset).value,
                                     direction)])
            /\ UNCHANGED skip_raised
    /\ UNCHANGED << envVars, objVars, callVars, obsVars, facVars, selVars,
                    validated >>

\* The front-end is looked at afresh.
SkipsOver ==
    /\ Len(seeks) = MaxSkips \/ skip_raised # ""
    /\ seeks' = << >>
    /\ skip_raised' = ""
    /\ UNCHANGED << envVars, objVars, callVars, obsVars, facVars, selVars,
                    validated >>

NextSkip ==
    \/ \E offset \in TimeStrings, direction \in {FORWARD, REVERSE} :
           skip_player(offset, direction)
    \/ SkipsOver

SpecSkip == Init /\ [][NextSkip]_vars

(***************************************************************************)
(* is_object_path_valid as a function of its argument.                     *)
(***************************************************************************)
\* The longest path handed to is_object_path_valid.
MaxPathLen == 3

\* The characters of the paths: word characters, the separator, and
\* characters no object path may hold.
PathChars == {"/", "a", "Z", "1", "_", " ", "-", "\n"}

\* A Python list: a value that is no str and cannot be hashed.
PyList == [type |-> "list", val |-> <<>>]

\* The arguments: every str over PathChars up to MaxPathLen characters, an
\* int and a list.
Paths ==
    { PyStr(q) : q \in UNION { [1..n -> PathChars] : n \in 0..MaxPathLen } }
    \cup {PyInt, PyList}

\* @lru_cache() around is_object_path_valid: the argument is hashed for the
\* cache before the function runs, which raises TypeError for a value that
\* cannot be hashed; the cache does not change what the function returns.
lru_cache_is_object_path_valid(path) ==
    IF path.type = "list" THEN "TypeError"
    ELSE IF is_object_path_valid(path) THEN "True"
    ELSE "False"

\* is_object_path_valid(path) is called.
ValidatesPath(path) ==
    /\ pc = "idle"
    /\ fpc = "idle"
    /\ sel_pc = "idle"
    /\ validated' = << [path |-> path,
                        result |-> lru_cache_is_object_path_valid(path)] >>
    /\ UNCHANGED << envVars, objVars, callVars, obsVars, facVars, selVars,
                    seeks, skip_raised >>

NextPath == \E path \in Paths : ValidatesPath(path)

SpecPath == Init /\ [][NextPath]_vars

(***************************************************************************)
(* Properties of the proxy session (specification Spec).                   *)
(***************************************************************************)
\* The bus invocations of the call that name remote method m.
Invocations(m) == SelectSeq(bus, LAMBDA e : e.m = m)

\* The commands of PlayerProxy that act on the remote player.
PlayerCommands == SimpleCommands \cup {"seek", "set_position"}

\* The remote player received the command of the call: the last bus
\* invocation of the call is that command, and it reached the player.
CommandReceived ==
    /\ bus # << >>
    /\ LET e == bus[Len(bus)]
       IN  /\ e.ok
           /\ e.h = player
           /\ IF cur.op = "set_position"
              THEN \/ e.m = "SetPosition" /\ e.x = cur.arg
                   \/ e.m = "Seek"
              ELSE e.m = BusMethod(cur.op) /\ e.x = cur.arg

\* C1. Transparent reconnect: a command called on a proxy whose handle's
\* connection is stale while the player is on the bus (and stays as it is
\* during the call) returns normally: the caller sees no error, the handle
\* was reconnected exactly once, and the player received the command.
C1_TransparentReconnect ==
    (/\ pc = "done"
     /\ cur.op \in PlayerCommands
     /\ startLink = "stale"
     /\ ~envChanged)
    => (/\ result = "ok"
        /\ raised = ""
        /\ connCalls = 1
        /\ CommandReceived)

\* A stale handle was reconnected during set_position, in a session where an
\* earlier call had ended in an error.
C1_Witness ==
    /\ pc = "done"
    /\ cur.op = "set_position"
    /\ startLink = "stale"
    /\ ~envChanged
    /\ errorBefore
    /\ result = "ok"
    /\ connCalls = 1

\* The exceptions connect() raises.
ConnectErrors == {"PlayerConnectionError", "GLibError", "Exception"}

\* C2, as stated. Reconnect-retry bound: when the first invocation of a
\* forwarded operation raises, the proxy reconnects exactly once and invokes
\* the operation a second time, exactly once; when that raises too the
\* caller observes the error.
C2_RetryBound_AsStated ==
    (/\ pc = "done"
     /\ cur.op \in Reconnecting
     /\ player # 0
     /\ raises >= 1)
    => (/\ connCalls = 1
        /\ opCalls = 2
        /\ (raises = 2 => result = "error"))

\* C2, amended. When the first invocation raises, the proxy reconnects
\* exactly once; if connect() succeeds the operation is invoked a second
\* time, exactly once, and the caller observes an error exactly when that
\* invocation raises too; if connect() raises the operation is not invoked
\* again and the caller observes the error of connect().
C2_RetryBound ==
    (/\ pc = "done"
     /\ cur.op \in Reconnecting
     /\ player # 0
     /\ raises >= 1)
    => (/\ connCalls = 1
        /\ IF attempt = 2
           THEN /\ opCalls = 2
                /\ raises <= 2
                /\ (raises = 2 <=> result = "error")
                /\ (raises = 1 <=> result = "ok")
           ELSE /\ opCalls = 1
                /\ raises = 1
                /\ result = "error"
                /\ raised \in ConnectErrors)

\* Both invocations raised, with a successful reconnect in between.
C2_Witness ==
    /\ pc = "done"
    /\ cur.op \in Reconnecting
    /\ player # 0
    /\ attempt = 2
    /\ raises = 2
    /\ connCalls = 1
    /\ result = "error"

\* C3. No unbounded retry: in one call of a proxy command the handle's
\* operation is invoked at most twice and its connect() at most once; when
\* the first invocation does not raise, the operation is invoked exactly
\* once and connect() not at all.
C3_NoUnboundedRetry ==
    (cur.op \in Reconnecting)
    => (/\ opCalls <= 2
        /\ connCalls <= 1
        /\ (pc = "done" /\ player # 0 /\ raises = 0
               => opCalls = 1 /\ connCalls = 0))

\* A command whose two invocations both raised has ended, and one whose
\* first invocation went through.
C3_Witness ==
    /\ pc = "done"
    /\ cur.op = "play_pause"
    /\ opCalls = 2
    /\ connCalls = 1
    /\ raises = 2

\* The track id a Metadata map yields: the value of the key, "" without it.
TrackIdOf(md) ==
    IF "mpris:trackid" \in DOMAIN md THEN md["mpris:trackid"] ELSE EmptyTrackId

\* A valid object path of the bus: "/" alone, or "/" followed by segments
\* of one or more of [A-Za-z0-9_] separated by single "/", with no "/" at
\* the end.
IsObjectPath(v) ==
    /\ v.type = "str"
    /\ Len(v.val) >= 1
    /\ v.val[1] = "/"
    /\ \A i \in 1..Len(v.val) : v.val[i] \in WordChars \cup {"/"}
    /\ \A i \in 1..(Len(v.val) - 1) : ~(v.val[i] = "/" /\ v.val[i + 1] = "/")
    /\ (Len(v.val) > 1 => v.val[Len(v.val)] # "/")

\* C9. set_position fallback: on a connected handle whose player stays at
\* position p with a track id that is no valid object path (an empty id and
\* a Metadata map without the key included), set_position(t) makes exactly
\* one remote Seek call, Seek(t - p), and no SetPosition call, and raises
\* nothing.
C9_SetPositionFallback ==
    (/\ pc = "done"
     /\ cur.op = "set_position"
     /\ startLink = "ok"
     /\ ~envChanged
     /\ ~IsObjectPath(TrackIdOf(startMd)))
    => (/\ result = "ok"
        /\ raises = 0
        /\ Len(Invocations("Seek")) = 1
        /\ Invocations("Seek")[1].x = cur.arg - startPos
        /\ Invocations("Seek")[1].ok
        /\ Invocations("SetPosition") = << >>)

\* C10. set_position direct path: on a connected handle whose player stays
\* on a track with a valid id, set_position(t) calls the remote SetPosition
\* exactly once, with that id and t, and does not seek.
C10_SetPositionDirect ==
    (/\ pc = "done"
     /\ cur.op = "set_position"
     /\ startLink = "ok"
     /\ ~envChanged
     /\ IsObjectPath(TrackIdOf(startMd)))
    => (/\ result = "ok"
        /\ Len(Invocations("SetPosition")) = 1
        /\ Invocations("SetPosition")[1].id = TrackIdOf(startMd)
        /\ Invocations("SetPosition")[1].x = cur.arg
        /\ Invocations("SetPosition")[1].ok
        /\ Invocations("Seek") = << >>)

\* The direct path ran to a target other than the current position.
C10_Witness ==
    /\ pc = "done"
    /\ cur.op = "set_position"
    /\ startLink = "ok"
    /\ ~envChanged
    /\ startMd = MetadataWith(ValidTrackId)
    /\ cur.arg = 2
    /\ startPos = 1
    /\ Len(Invocations("SetPosition")) = 1
    /\ position[handles[player].name] = 2

(***************************************************************************)
(* Properties of the property reads (specification SpecProps).             *)
(***************************************************************************)
\* C4. Proxy null-safety: a call on a PlayerProxy whose wrapped reference is
\* null returns without raising, makes no bus call and no reconnect attempt,
\* and returns a null value.
C4_ProxyNullSafety ==
    (pc = "done" /\ player = 0)
    => (/\ result = "ok"
        /\ raised = ""
        /\ ret = None
        /\ bus = << >>
        /\ opCalls = 0
        /\ connCalls = 0)

(***************************************************************************)
(* Properties of the PlayerFactory (specification SpecFactory).            *)
(***************************************************************************)
\* The services get_player was called for in this factory call.
Attempted == { attempts[i].service : i \in DOMAIN attempts }

\* The get_player calls for service n in this factory call.
AttemptsOf(n) == { i \in DOMAIN attempts : attempts[i].service = n }

\* A service name that starts with the MPRIS player prefix.
IsMprisName(n) ==
    /\ Len(n) >= Len(media_player_prefix)
    /\ SubSeq(n, 1, Len(media_player_prefix)) = media_player_prefix

InDiscovery == fcall = "get_running_player_names"

\* C5. Idempotent discovery filtering: a name that is in the memo of
\* unuseable players stays in it, and a get_running_player_names() pass
\* neither attempts construction against a name that was in the memo when
\* the pass began nor puts it in its result, whatever the service has
\* become since.
C5_IdempotentDiscoveryFiltering ==
    /\ [](InDiscovery =>
            \A n \in Range(memoAtCall) :
                /\ n \notin Attempted
                /\ n \notin Range(running_player_names))
    /\ [][\A n \in Range(unuseable_player_names) :
              n \in Range(unuseable_player_names')]_vars

\* A pass returned without a player that was on the list, is constructible
\* now and was in the memo when the pass began.
C5_Witness ==
    /\ InDiscovery
    /\ fpc = "done"
    /\ fresult = "ok"
    /\ \E n \in Range(memoAtCall) :
           /\ n \in Range(all_service_names)
           /\ get_player(binding, reach[n]) = "PlayerProxy"
           /\ n \notin Range(running_player_names)
    /\ Attempted # {}

\* C6. Discovery result: when a get_running_player_names() pass is over,
\* every listed MPRIS candidate outside the memo was attempted exactly once
\* and nothing else was, the result holds exactly the candidates whose
\* construction succeeded, and every candidate whose construction failed is
\* in the memo and not in the result.
C6_DiscoveryResult ==
    (InDiscovery /\ fpc = "done")
    => LET candidates == { n \in Range(all_service_names) :
                             IsMprisName(n) /\ n \notin Range(memoAtCall) }
       IN  /\ Attempted = candidates
           /\ \A n \in candidates : Cardinality(AttemptsOf(n)) = 1
           /\ Range(running_player_names) =
                  { attempts[i].service :
                      i \in { j \in DOMAIN attempts :
                                attempts[j].outcome = "PlayerProxy" } }
           /\ \A i \in DOMAIN attempts :
                  attempts[i].outcome # "PlayerProxy"
                  => /\ attempts[i].service \in Range(unuseable_player_names)
                     /\ attempts[i].service \notin Range(running_player_names)

\* C7. Discovery never errors because of an unuseable player: a
\* get_running_player_names() call ends by returning its mapping, with
\* either binding.
C7_DiscoveryNeverErrors ==
    (InDiscovery /\ fpc = "done") => (fresult = "ok" /\ fraised = "")

\* C8. get_player has two outcomes with either binding: it returns a
\* PlayerProxy or it raises PlayerCreationError.
C8_GetPlayerOutcomes ==
    \A i \in DOMAIN attempts :
        attempts[i].outcome \in {"PlayerProxy", "PlayerCreationError"}

(***************************************************************************)
(* Properties of the capability flags (specification SpecFlags).           *)
(***************************************************************************)
\* The proxy call that is over read capability flag f of handle h itself
\* (the proxy's own slot for f was empty).
HandleFlagRead(h, f) ==
    /\ pc = "done"
    /\ cur.op \in FlagProperties
    /\ PropertyName(cur.op) = f
    /\ player = h
    /\ opCalls = 1

C12_GetForwards ==
    (/\ pc = "done"
     /\ cur.op = "get"
     /\ startLink = "ok"
     /\ ~envChanged)
    => (/\ result = "ok"
        /\ Len(bus) = 1
        /\ bus[1].m = "Get"
        /\ bus[1].iface = cur.iface
        /\ bus[1].prop = cur.prop
        /\ ret = RemoteValue(handles[player].name, cur.prop))

\* The property reads of the proxy that go to the remote player.
RemoteReads == PlainProperties \cup FlagProperties \cup {"trackid"}

\* C13. The property reads follow the reconnect policy (specification
\* SpecProps): when a read of playback_status, position, metadata, trackid
\* or a capability flag raises on the wrapped handle, the handle's connect()
\* is called once, and an error reaches the caller only after the read was
\* made a second time.
C13_ReadsReconnect ==
    (/\ pc = "done"
     /\ cur.op \in RemoteReads
     /\ raises >= 1)
    => (/\ connCalls = 1
        /\ result = "error" => (opCalls = 2 \/ raised \in ConnectErrors))

\* C14. set_player(h) replaces the wrapped handle (specification SpecProps,
\* where a handle is attached by set_player only): a call on the proxy made
\* with h attached is forwarded to h, and every bus invocation it makes goes
\* through h.
C14_SetPlayerReplaces ==
    (pc = "done" /\ player # 0)
    => (/\ opCalls >= 1
        /\ \A i \in DOMAIN bus : bus[i].h = player)

\* Capability flag f as handle h reports it: the value it fetched, or the
\* remote's when it has fetched none.
HandleFlag(h, f) ==
    IF handles[h].ccache[f] # "unset"
    THEN Cached(handles[h].ccache[f])
    ELSE BoolVal(f \in caps[handles[h].name])

\* C15. The capability flags of a proxy are those of its attached handle
\* (specification SpecProps): a read of can_control, can_seek, can_pause or
\* can_play that returns with handle h attached returns h's flag, also when
\* the flag was read through the proxy before h was attached.
C15_ProxyFlagsOfHandle ==
    (/\ pc = "done"
     /\ cur.op \in FlagProperties
     /\ player # 0
     /\ result = "ok")
    => ret = HandleFlag(player, PropertyName(cur.op))

\* C16. trackid does not raise on a missing key (specification SpecProps):
\* a read of trackid through a handle that reaches its player, ending while
\* the remote's Metadata has no "mpris:trackid" key, returns the empty
\* string, whatever the Metadata was when the read began.
C16_TrackidMissingKey ==
    (/\ pc = "done"
     /\ cur.op = "trackid"
     /\ player # 0
     /\ startLink = "ok"
     /\ BusOk(player)
     /\ "mpris:trackid" \notin DOMAIN metadata[handles[player].name])
    => (/\ result = "ok"
        /\ ret = ObjVal(EmptyTrackId))

FailedHere ==
    { attempts[i].service :
        i \in { j \in DOMAIN attempts : attempts[j].outcome # "PlayerProxy" } }

\* C18. The memo holds the names that failed construction: when a factory
\* call (get_running_player_names or get_player) is over, the memo holds
\* the names it held when the call began and the names whose construction
\* failed in the call, and no other. The memo being empty at first, a name
\* is then in the memo exactly if some construction against it has failed.
C18_MemoIsFailedNames ==
    fpc = "done"
    => Range(unuseable_player_names) = Range(memoAtCall) \cup FailedHere

(***************************************************************************)
(* Properties of get_selected_player (specification SpecSelect).           *)
(***************************************************************************)
\* The user answered no to the try-another prompt.
UserDeclined ==
    /\ prompts # << >>
    /\ prompts[Len(prompts)].prompt = "user_try_another_player"

\* C19. get_selected_player returns only useable players: the player it
\* returns has can_control and can_seek both true; with an empty
\* running_players it raises ValueError, and when the names are exhausted
\* or the user declines to choose another it raises
\* NoValidMprisPlayersError.
C19_ReturnsUseablePlayer ==
    sel_pc = "done"
    => /\ sel_result = "ok"
          => /\ selected_player.flags["CanControl"] = "True"
             /\ selected_player.flags["CanSeek"] = "True"
       /\ DOMAIN running_players = {} => sel_raised = "ValueError"
       /\ (DOMAIN running_players # {} /\ player_names = << >>)
          => sel_raised = "NoValidMprisPlayersError"
       /\ UserDeclined => sel_raised = "NoValidMprisPlayersError"

\* A second player was returned after the first chosen was found not
\* useable.
C19_Witness ==
    /\ sel_pc = "done"
    /\ sel_result = "ok"
    /\ Len(prompts) = 3
    /\ Len(player_names) = 1
    /\ selected_player.flags["CanSeek"] = "True"

\* The one player of running_players stayed on the bus, as the same
\* connection, during the call.
OnePlayerStayed ==
    \A k \in DOMAIN running_players :
        /\ reach[running_players[k]] = "ok"
        /\ owner[running_players[k]] = ownerAtCall[running_players[k]]

\* C20. With exactly one running player get_selected_player shows neither
\* the selection prompt nor the try-another prompt, and ends by returning
\* that player or by raising NoValidMprisPlayersError.
C20_OnePlayerDirect ==
    Cardinality(DOMAIN running_players) = 1
    => /\ prompts = << >>
       /\ (sel_pc = "done" /\ OnePlayerStayed)
          => \/ /\ sel_result = "ok"
                /\ selected_player.name \in Range(running_players)
             \/ sel_raised = "NoValidMprisPlayersError"

\* The one running player could not seek: the call ended with
\* NoValidMprisPlayersError and no prompt.
C20_Witness ==
    /\ sel_pc = "done"
    /\ Cardinality(DOMAIN running_players) = 1
    /\ OnePlayerStayed
    /\ sel_raised = "NoValidMprisPlayersError"
    /\ selected_player.flags["CanControl"] = "True"
    /\ selected_player.flags["CanSeek"] = "False"
    /\ prompts = << >>

(***************************************************************************)
(* Properties of the skips (specification SpecSkip).                       *)
(***************************************************************************)
\* A time "HH:MM:SS" between 00:00:00 and 99:59:59.
IsTime(str) ==
    /\ Len(str) = 8
    /\ str[3] = ":" /\ str[6] = ":"
    /\ \A i \in {1, 2, 5, 8} : \E n \in 0..9 : DecimalDigits[n + 1] = str[i]
    /\ \A i \in {4, 7} : \E n \in 0..5 : DecimalDigits[n + 1] = str[i]

\* 3600*HH + 60*MM + SS
Seconds(str) ==
    LET d(i) == DigitValue(str[i])
    IN  3600 * (10 * d(1) + d(2)) + 60 * (10 * d(4) + d(5))
        + (10 * d(7) + d(8))

\* The integer n * 1000000, as limbs of 1000000.
Millions(n) == [hi |-> n, lo |-> 0]

Zero == [hi |-> 0, lo |-> 0]

\* C21. Skips are additive inverses: for a time string s, a forward skip
\* hands seek the offset (3600*HH + 60*MM + SS) * 1000000 and a reverse
\* skip its negative, so a forward and a reverse skip by the same s add up
\* to zero.
C21_SkipInverses ==
    /\ \A i \in DOMAIN seeks :
           IsTime(seeks[i].offset)
           => /\ seeks[i].direction = FORWARD
                 => seeks[i].x = Millions(Seconds(seeks[i].offset))
              /\ seeks[i].direction = REVERSE
                 => seeks[i].x = Millions(0 - Seconds(seeks[i].offset))
    /\ \A i, j \in DOMAIN seeks :
           (/\ IsTime(seeks[i].offset)
            /\ seeks[i].offset = seeks[j].offset
            /\ seeks[i].direction # seeks[j].direction)
           => /\ seeks[i].x.hi + seeks[j].x.hi = 0
              /\ seeks[i].x.lo + seeks[j].x.lo = 0

\* 99:59:59 forward, then 99:59:59 in reverse.
C21_Witness ==
    /\ Len(seeks) = 2
    /\ seeks[1].offset = <<"9", "9", ":", "5", "9", ":", "5", "9">>
    /\ seeks[2].offset = seeks[1].offset
    /\ seeks[1].direction = FORWARD
    /\ seeks[2].direction = REVERSE
    /\ seeks[1].x = Millions(359999)
    /\ seeks[2].x = Millions(-359999)


(***************************************************************************)
(* Properties of a failed reconnect (specification Spec).                  *)
(***************************************************************************)
\* The connect() calls of the call that raised.
FailedConnects == SelectSeq(bus, LAMBDA e : e.m = "connect" /\ ~e.ok)

\* C22. A failed reconnect is not retried: when a call decorated with the
\* reconnect policy raises on its first attempt and the connect() that
\* follows raises too, the operation was invoked once and no more, connect()
\* was called once, nothing went to the bus after the failed connect(), and
\* the caller sees the exception of connect().
C22_ConnectFailureNoRetry ==
    (/\ pc = "done"
     /\ cur.op \in Reconnecting
     /\ FailedConnects # << >>)
    => (/\ opCalls = 1
        /\ connCalls = 1
        /\ Len(FailedConnects) = 1
        /\ bus[Len(bus)].m = "connect"
        /\ result = "error"
        /\ raised = ConnectOutcome(binding, reach[ConnectName(player)]))

C22_Witness ==
    /\ pc = "done"
    /\ cur.op = "seek"
    /\ FailedConnects # << >>
    /\ opCalls = 1
    /\ raises = 1
    /\ raised = "PlayerConnectionError"


\* C23. Reconnect keeps the identity: in every step of a proxy session the
\* handles keep the name and ext_name they were constructed with, every
\* connect() logged addresses the bus name of its handle, and the wrapped
\* reference of the proxy changes in a set_player step only.
C23_ReconnectKeepsIdentity ==
    [][
        /\ \A h \in DOMAIN handles :
            /\ handles'[h].name = handles[h].name
            /\ handles'[h].ext_name = handles[h].ext_name
        /\ \A h \in DOMAIN handles' :
            <<handles'[h].name, handles'[h].ext_name>> \in PlayerNames
        /\ \A i \in DOMAIN bus' :
            (bus'[i].m = "connect"
             => bus'[i].name = handles'[bus'[i].h].name)
        /\ (player' # player => \E h \in 0..Len(handles) : SetPlayer(h))
    ]_vars

\* A command ended after its handle was reconnected: the handle has a new
\* connection and the names it was built with.
C23_Witness ==
    /\ pc = "done"
    /\ cur.op \in SimpleCommands
    /\ raises >= 1
    /\ \E i \in DOMAIN bus : bus[i].m = "connect" /\ bus[i].ok
    /\ handles[player].conn = owner[handles[player].name]
    /\ handles[player].conn > 0


(***************************************************************************)
(* The memo and the filter of discovery (specification SpecFactory).       *)
(***************************************************************************)
\* List q has no element twice.
NoDuplicates(q) == \A i, j \in DOMAIN q : q[i] = q[j] => i = j

\* C24. The memo of unuseable services is append-only and duplicate-free:
\* in every step the memo keeps what it held, in its order, and only grows
\* at its end; no name is in it twice; and when a
\* get_running_player_names() call returns its mapping, no value of the
\* mapping is in the memo.
C24_MemoAppendOnly ==
    [][
        /\ Len(unuseable_player_names') >= Len(unuseable_player_names)
        /\ SubSeq(unuseable_player_names', 1, Len(unuseable_player_names))
               = unuseable_player_names
        /\ NoDuplicates(unuseable_player_names')
        /\ (fcall' = "get_running_player_names" /\ fpc' = "done"
                /\ fresult' = "ok")
           => Range(running_player_names') \cap Range(unuseable_player_names')
                  = {}
    ]_vars

\* A pass returned a player and appended a name to the memo.
C24_Witness ==
    /\ fcall = "get_running_player_names"
    /\ fpc = "done"
    /\ fresult = "ok"
    /\ DOMAIN running_player_names # {}
    /\ Len(unuseable_player_names) > Len(memoAtCall)

\* C25. Discovery keeps only services carrying the MPRIS player prefix: in
\* a get_running_player_names() call construction is attempted against
\* names that start with the prefix only, and every value of the mapping is
\* a listed name that starts with the prefix, under the key that follows
\* the prefix and its dot.
C25_DiscoveryKeepsPrefixed ==
    InDiscovery
    => /\ \A n \in Attempted : IsMprisName(n)
       /\ \A k \in DOMAIN running_player_names :
              LET n == running_player_names[k]
              IN  /\ n \in Range(all_service_names)
                  /\ IsMprisName(n)
                  /\ n = media_player_prefix \o <<".">> \o k

(***************************************************************************)
(* set_position and the track id (specification Spec).                     *)
(***************************************************************************)
\* C26. In set_position the track id sent with SetPosition is the value
\* that is_object_path_valid accepted: whenever the last bus invocation is
\* a SetPosition, its id is the id validated in that attempt and is a valid
\* object path, whatever the remote player did meanwhile.
C26_ValidatedIdSent ==
    (bus # << >> /\ bus[Len(bus)].m = "SetPosition")
    => LET id == bus[Len(bus)].id
       IN  /\ id = tidValid
           /\ IsObjectPath(id)

\* C27. One bus binding per process: all the listings of names by
\* get_running_player_names() and all the handle constructions by
\* get_player() in a process use one and the same binding.
C27_OneBinding ==
    \A u, v \in bindings : u.binding = v.binding

\* The process has listed the names and has built a handle, the latter in a
\* direct get_player call after a discovery pass.
C27_Witness ==
    /\ fcall = "get_player"
    /\ fpc = "done"
    /\ { u.call : u \in bindings } = {"list_names", "get_player"}
    /\ binding = "dbus_python"

(***************************************************************************)
(* Termination of get_selected_player (specification SpecSelectLive).      *)
(***************************************************************************)
InSelection == sel_pc \notin {"idle", "done"}

\* C28. get_selected_player terminates: in a call with a non-empty
\* running_players it constructs no more players than running_players has
\* names and none twice, the names it offers hold none it has constructed
\* and rejected, and the call ends, with a player or with an exception.
C28_SelectionTerminates ==
    /\ [](/\ Len(constructed) <= Cardinality(DOMAIN running_players)
          /\ NoDuplicates(constructed)
          /\ sel_pc = "user_select_player"
                => Range(player_names) \cap Range(constructed) = {})
    /\ InSelection ~> (sel_pc = "done" /\ sel_result \in {"ok", "error"})

\* A call ended after as many constructions as there were names, the user
\* having been asked to choose again.
C28_Witness ==
    /\ sel_pc = "done"
    /\ Len(constructed) = 2
    /\ Cardinality(DOMAIN running_players) = 2
    /\ Len(prompts) >= 3

(***************************************************************************)
(* The object paths (specification SpecPath).                              *)
(***************************************************************************)
\* C29. is_object_path_valid(path) returns true exactly when path is a str
\* that is "/" alone or starts with "/" and has only non-empty segments of
\* ASCII letters, digits and underscore after it, and returns false for
\* every other argument (the empty str, a non-str, an empty segment, a
\* trailing "/", any other character).
C29_ObjectPathExactly ==
    \A i \in DOMAIN validated :
        validated[i].result =
            (IF IsObjectPath(validated[i].path) THEN "True" ELSE "False")

(***************************************************************************)
(* The console front-end (specification SpecSelect).                       *)
(***************************************************************************)
\* Capability flag f of the player given to the chapters menu: what the
\* player object fetched, or what the remote player reports when nothing
\* was fetched.
MenuPlayerFlag(f) ==
    IF menu_player[1].flags[f] # "unset"
    THEN menu_player[1].flags[f] = "True"
    ELSE f \in caps[menu_player[1].name]

\* C30. The console front-end never proceeds with a player that is not
\* useable: the player build_console_menu gives to the chapters menu has
\* can_control and can_seek both true, with one discovered player as with
\* several.
C30_MenuPlayerUseable ==
    menu_pc = "attached"
    => /\ MenuPlayerFlag("CanControl")
       /\ MenuPlayerFlag("CanSeek")

====
